---------------------------- MODULE Spec2Model ----------------------------
(***************************************************************************)
(* WorkTimeTracker: the geofence shift-detection state machine             *)
(* (services/chatService.js, second half: the iOS geofencing service),     *)
(* the time rounder (services/timeRoundingUtils.js) and the confirmation   *)
(* workflow (screens/HomeScreen.js, screens/EditShiftScreen.js).           *)
(*                                                                         *)
(* Every `await` of the source is one step of the model: a handler runs    *)
(* from one await to the next atomically and other handlers may run in     *)
(* between.  Optional values (a missing AsyncStorage key, null) are the    *)
(* empty tuple <<>>; a present value x is <<x>>, except ISO time strings,  *)
(* which are the 5-tuple <<day, hour, minute, second, ms>>.  Local time is *)
(* taken to be UTC.  A position is represented by its distance in metres   *)
(* from the work site (the value calculateDistance returns for it).        *)
(***************************************************************************)
EXTENDS Integers, Naturals, Sequences, FiniteSets, TLC

VARIABLES
    \* AsyncStorage (KEYS, chatService.js:90-97)
    isAtWork,           \* KEYS.IS_AT_WORK: "null" | "true" | "false"
    enteredTime,        \* KEYS.ENTERED_TIME: <<>> | ISO string
    currentShift,       \* KEYS.CURRENT_SHIFT: <<>> | <<[startTime, confirmed]>>
    pending,            \* KEYS.PENDING_SHIFTS: sequence of shiftData
    workLocation,       \* KEYS.WORK_LOCATION: <<>> | <<[radius]>>
    \* platform
    geofencing,         \* Location.hasStartedGeofencingAsync(GEOFENCE_TASK)
    locationUpdates,    \* Location.hasStartedLocationUpdatesAsync(LOCATION_TASK)
    timers,             \* setTimeout callbacks not yet run: clock index -> count
    notif,              \* notifications dispatched, counted by kind
    prompts,            \* shiftData payloads of the confirmation prompts sent
    now,                \* index into Clock: the wall clock
    \* running code
    handlers,           \* background handler instances: slot -> frame
    ui,                 \* the foreground (screen) operation in progress
    homePending,        \* HomeScreen's React state pendingShifts
    created,            \* work_shifts rows inserted by WorkShiftService.createShift
    alert,              \* the last Alert.alert shown: <<>> | <<screen, title>>
    \* budgets that keep the model finite
    limit,              \* what a specification explores (fixed by its Init)
    nSignals, nFail, nUi,
    \* history (not read by the program)
    session,            \* number of entries that have set isAtWork = 'true'
    entryLog,           \* the entry time of each of them, in order
    appendLog,          \* every shiftData pushed by handleWorkExit, with its session
    removeLog,          \* every shiftData the user accepted or edit-saved from the list
    \* inputs and outputs of the pure functions (SpecRound, SpecFinalize)
    pin, pout

vars == <<isAtWork, enteredTime, currentShift, pending, workLocation,
          geofencing, locationUpdates, timers, notif,
          prompts, now, handlers, ui, homePending, created, alert, limit,
          nSignals,
          nFail, nUi, session, entryLog, appendLog, removeLog, pin, pout>>

storeVars == <<isAtWork, enteredTime, currentShift, pending, workLocation>>
trackingVars == <<isAtWork, enteredTime, currentShift>>
platformVars == <<geofencing, locationUpdates>>
histVars == <<session, entryLog, appendLog, removeLog>>
pureVars == <<pin, pout, limit>>

----------------------------------------------------------------------------
(* Bounds *)

MaxHandlers == 2      \* background handlers in flight at once
MaxSignals == 4       \* platform signals delivered in one behaviour
SerialSignals == 3    \* ... when tracking is also stopped and restarted
RaceSignals == 3      \* ... when two handlers interleave
RepeatSignals == 2    \* ... when the user repeats a confirmation
RepeatUiOps == 3      \* foreground operations begun when the user repeats one
MaxFailures == 1      \* platform calls that reject in one behaviour
TwoFailures == 2      \* ... when a second error follows the first
MaxUiOps == 2         \* foreground operations in one behaviour
MaxDay == 1           \* days after the entry day an exit is drawn from

----------------------------------------------------------------------------
(* Dates: a Date is its time value, milliseconds since local midnight of   *)
(* day 0.                                                                  *)

\* Date.prototype.toISOString: the calendar fields of the instant.
ToISOString(d) ==
    << d \div 86400000, (d \div 3600000) % 24, (d \div 60000) % 60,
       (d \div 1000) % 60, d % 1000 >>

\* new Date(isoString): the instant of the calendar fields.
NewDate(s) ==
    (((s[1] * 24 + s[2]) * 60 + s[3]) * 60 + s[4]) * 1000 + s[5]

GetMinutes(d) == (d \div 60000) % 60
GetHours(d) == (d \div 3600000) % 24

\* Date.prototype.setMinutes(m, 0, 0): minutes, seconds and ms are replaced.
SetMinutes(d, m) == (d - (d % 3600000)) + m * 60000

\* Date.prototype.setHours(h): the hour field is replaced, the rest kept;
\* h = 24 carries into the next day.
SetHours(d, h) == (d - (d % 86400000)) + h * 3600000 + (d % 3600000)

\* date-fns format(d, 'yyyy-MM-dd'): the local calendar day.
FormatDate(d) == d \div 86400000

\* timeRoundingUtils.js roundTime with the seconds left in place (mutant).
RoundTimeKeepSeconds(date) ==
    LET minutes == GetMinutes(date) IN
    IF minutes <= 15
    THEN date - minutes * 60000
    ELSE IF minutes > 15 /\ minutes <= 45
    THEN date - minutes * 60000 + 30 * 60000
    ELSE LET r == date - minutes * 60000 IN SetHours(r, GetHours(r) + 1)

\* roundTime with the half-hour branch ending below 30 minutes (mutant).
RoundTimeHalfGoesUp(date) ==
    LET minutes == GetMinutes(date) IN
    IF minutes <= 15
    THEN SetMinutes(date, 0)
    ELSE IF minutes > 15 /\ minutes < 30
    THEN SetMinutes(date, 30)
    ELSE LET r == SetMinutes(date, 0) IN SetHours(r, GetHours(r) + 1)

\* roundTime with minute 15 sent to the half hour (mutant).
RoundTimeQuarterGoesUp(date) ==
    LET minutes == GetMinutes(date) IN
    IF minutes < 15
    THEN SetMinutes(date, 0)
    ELSE IF minutes >= 15 /\ minutes <= 45
    THEN SetMinutes(date, 30)
    ELSE LET r == SetMinutes(date, 0) IN SetHours(r, GetHours(r) + 1)

RoundTime(date) ==
    LET minutes == GetMinutes(date) IN
    IF minutes <= 15
    THEN SetMinutes(date, 0)
    ELSE IF minutes > 15 /\ minutes <= 45
    THEN SetMinutes(date, 30)
    ELSE LET r == SetMinutes(date, 0) IN SetHours(r, GetHours(r) + 1)

RoundEntryTime(dateTime) == RoundTime(dateTime)
RoundExitTime(dateTime) == RoundTime(dateTime)

MinShiftMinutes == 15

\* handleWorkExit, lines 391-392
DurationMinutes(roundedStart, roundedEnd) ==
    (roundedEnd - roundedStart) \div (1000 * 60)

\* handleWorkExit with the duration taken from the original times (mutant).
ShiftDataUnroundedDuration(shiftStartTime, exitTime) ==
    LET originalStart == NewDate(shiftStartTime)
        originalEnd == NewDate(exitTime)
        roundedStart == RoundEntryTime(originalStart)
        roundedEnd == RoundExitTime(originalEnd)
    IN  [ startTime |-> ToISOString(roundedStart),
          endTime |-> ToISOString(roundedEnd),
          durationMinutes |-> DurationMinutes(originalStart, originalEnd),
          date |-> FormatDate(roundedStart),
          originalStartTime |-> shiftStartTime,
          originalEndTime |-> exitTime,
          wasRounded |-> TRUE ]

\* handleWorkExit, lines 382-406: the shiftData built from the session's
\* start time and the exit time (both ISO strings).
ShiftData(shiftStartTime, exitTime) ==
    LET originalStart == NewDate(shiftStartTime)
        originalEnd == NewDate(exitTime)
        roundedStart == RoundEntryTime(originalStart)
        roundedEnd == RoundExitTime(originalEnd)
    IN  [ startTime |-> ToISOString(roundedStart),
          endTime |-> ToISOString(roundedEnd),
          durationMinutes |-> DurationMinutes(roundedStart, roundedEnd),
          date |-> FormatDate(roundedStart),
          originalStartTime |-> shiftStartTime,
          originalEndTime |-> exitTime,
          wasRounded |-> TRUE ]

----------------------------------------------------------------------------
(* The wall clock and the positions the location provider reports *)

\* new Date().toISOString() at the instants the model visits:
\* 09:07:12.345, 09:50:00.000, 09:58:30.000, 17:52:41.000 of day 0.
Clock ==
    << <<0, 9, 7, 12, 345>>, <<0, 9, 50, 0, 0>>, <<0, 9, 58, 30, 0>>,
       <<0, 17, 52, 41, 0>> >>

Now == Clock[now]

\* new Date(): the clock is read; it has not run backwards since the last
\* reading.
Observe == \E n \in now..Len(Clock) : now' = n

\* Distances from the work site: inside the radius, inside the exit buffer,
\* beyond the exit threshold.
Distances == {100, 170, 200}

DefaultRadius == 150
IOS_EXIT_BUFFER_x10 == 12
DwellMs == 15 * 60 * 1000

\* radius * IOS_EXIT_BUFFER, compared without fractions
BeyondExitThreshold(distance, radius) ==
    distance * 10 > radius * IOS_EXIT_BUFFER_x10

----------------------------------------------------------------------------
(* Initial state: a fresh install, tracking never started *)

None == <<>>
Some(x) == <<x>>

Idle ==
    [ pc |-> "idle", kind |-> "none", time |-> None, sample |-> 0,
      fresh |-> 0, isAtWork |-> "null", shift |-> None, entered |-> None,
      work |-> None, data |-> None, pend |-> <<>>, sess |-> 0,
      path |-> "none", uncaught |-> FALSE ]

UiIdle ==
    [ pc |-> "idle", op |-> "none", shift |-> None, index |-> -2,
      pend |-> <<>>, draft |-> None, thrown |-> "none", caught |-> FALSE ]

MainInit ==
    /\ isAtWork = "null"
    /\ enteredTime = None
    /\ currentShift = None
    /\ pending = <<>>
    /\ workLocation = None
    /\ geofencing = FALSE
    /\ locationUpdates = FALSE
    /\ timers = [i \in 1..Len(Clock) |-> 0]
    /\ notif = [arrived |-> 0, confirmed |-> 0, short |-> 0, prompt |-> 0]
    /\ prompts = {}
    /\ now = 1
    /\ handlers = [h \in 1..MaxHandlers |-> Idle]
    /\ ui = UiIdle
    /\ homePending = <<>>
    /\ created = <<>>
    /\ alert = None
    /\ nSignals = 0
    /\ nFail = 0
    /\ nUi = 0
    /\ session = 0
    /\ entryLog = <<>>
    /\ appendLog = <<>>
    /\ removeLog = <<>>

Limits(h, s, f, u) ==
    [handlers |-> h, signals |-> s, failures |-> f, ui |-> u]

FullLimits == Limits(MaxHandlers, MaxSignals, MaxFailures, MaxUiOps)

Init ==
    /\ MainInit
    /\ limit = FullLimits
    /\ pin = None
    /\ pout = None

mainVars == <<isAtWork, enteredTime, currentShift, pending, workLocation,
              geofencing, locationUpdates, timers, notif,
              prompts, now, handlers, ui, homePending, created, alert,
              nSignals, nFail, nUi, session, entryLog, appendLog, removeLog>>

----------------------------------------------------------------------------
(* Background handlers.  A frame is one running invocation of a task or    *)
(* timer callback; pc names the await it is suspended at.                  *)

Slots == 1..MaxHandlers
FreeSlot(h) ==
    /\ h <= limit.handlers
    /\ handlers[h].pc = "idle"
    /\ \A g \in Slots : g < h => handlers[g].pc # "idle"

SetFrame(h, f) == handlers' = [handlers EXCEPT ![h] = f]

\* An awaited operation rejects (store, location or notification I/O error).
Rejects == nFail < limit.failures /\ nFail' = nFail + 1
Resolves == nFail' = nFail

\* Where control goes when handleWorkEntry / validateAndHandleExit return:
\* the location task still writes LAST_LOCATION_CHECK (line 201), the
\* geofence task and forceExit (kind "geo") are done.
AfterCall(f) ==
    IF f.kind = "loc"
    THEN [Idle EXCEPT !.pc = "l_last", !.kind = "loc"]
    ELSE Idle

Goto(f, pc) == [f EXCEPT !.pc = pc]

\* the catch of the LOCATION_TASK body (lines 203-205): logged, the task
\* returns
TaskCatch(f) == Idle

\* the catch of handleWorkEntry (lines 291-293): logged, then the return
EntryCatch(f) == AfterCall(f)

\* checkStillAtWork without its try/catch: the rejection leaves the timer
\* callback unhandled (mutant)
CheckCatchMissing(f) == [Idle EXCEPT !.uncaught = TRUE]

\* the catch of checkStillAtWork (lines 347-349): logged, then the return
CheckCatch(f) == Idle

\* handleWorkExit calls clearWorkState on the path it took: "recorded"
\* (line 432 after 418), "short" (432 after 422), "nostart" (377) or "error"
\* (the catch, 439).  The frame keeps what handleWorkExit read of IS_AT_WORK.
ToClear(f, path) ==
    [Idle EXCEPT !.pc = "c_remove", !.kind = f.kind, !.time = f.time,
                 !.isAtWork = f.isAtWork, !.fresh = f.fresh, !.path = path]

\* the catch of handleWorkExit (lines 436-440): logged, then clearWorkState
\* (the frame keeps the shiftData, if one had been built)
ExitCatch(f) == [ToClear(f, "error") EXCEPT !.data = f.data]

Bump(kind) == notif' = [notif EXCEPT ![kind] = @ + 1]

\* TaskManager.defineTask(GEOFENCE_TASK, ...), lines 106-135: an event with
\* data; now = new Date().toISOString().
GeofenceTask(h, eventType) ==
    /\ geofencing
    /\ FreeSlot(h)
    /\ nSignals < limit.signals
    /\ nSignals' = nSignals + 1
    /\ Observe
    /\ SetFrame(h, [Idle EXCEPT !.kind = "geo", !.time = Now',
                      !.pc = IF eventType = "Enter" THEN "e_get" ELSE "v_pos"])
    /\ UNCHANGED <<storeVars, platformVars, timers, notif, prompts, ui,
                   homePending, created, nFail, nUi, histVars,
                   alert, pureVars>>

\* TaskManager.defineTask(LOCATION_TASK, ...), lines 145-158: a position
\* sample at `distance` from the work site.
LocationTask(h, distance) ==
    /\ locationUpdates
    /\ FreeSlot(h)
    /\ nSignals < limit.signals
    /\ nSignals' = nSignals + 1
    /\ Observe
    /\ SetFrame(h, [Idle EXCEPT !.kind = "loc", !.time = Now',
                      !.sample = distance, !.pc = "l_work"])
    /\ UNCHANGED <<storeVars, platformVars, timers, notif, prompts, ui,
                   homePending, created, nFail, nUi, histVars,
                   alert, pureVars>>

\* The setTimeout callback of handleWorkEntry (lines 287-289) runs once
\* 15 minutes have passed since it was scheduled.
DwellTimer(h, i) ==
    /\ timers[i] > 0
    /\ Observe
    /\ NewDate(Now') >= NewDate(Clock[i]) + DwellMs
    /\ FreeSlot(h)
    /\ timers' = [timers EXCEPT ![i] = @ - 1]
    /\ SetFrame(h, [Idle EXCEPT !.kind = "dwell", !.pc = "d_getAtWork"])
    /\ UNCHANGED <<storeVars, platformVars, notif, prompts, ui,
                   homePending, created, nSignals, nFail, nUi, histVars,
                   alert, pureVars>>

\* GeofencingService.forceExit, lines 685-688
ForceExit(h) ==
    /\ FreeSlot(h)
    /\ nSignals < limit.signals
    /\ nSignals' = nSignals + 1
    /\ Observe
    /\ SetFrame(h, [Idle EXCEPT !.kind = "geo", !.time = Now', !.pc = "v_pos"])
    /\ UNCHANGED <<storeVars, platformVars, timers, notif, prompts, ui,
                   homePending, created, nFail, nUi, histVars,
                   alert, pureVars>>

(* ---- LOCATION_TASK body, lines 160-205 ---- *)

LocGetWorkLocation(h) ==
    LET f == handlers[h] IN
    /\ f.pc = "l_work"
    /\ \/ Resolves /\ SetFrame(h, [f EXCEPT !.pc = "l_atWork", !.work = workLocation])
       \/ Rejects /\ SetFrame(h, TaskCatch(f))
    /\ UNCHANGED <<storeVars, platformVars, timers, notif, prompts, now, ui,
                   homePending, created, nSignals, nUi, histVars,
                   alert, pureVars>>

\* lines 163-198: the read of IS_AT_WORK and the three-way decision
LocDecide(f, atWork) ==
    IF f.work = None
    THEN Idle
    ELSE LET radius == f.work[1].radius IN
         IF f.sample <= radius /\ atWork # "true"
         THEN [Idle EXCEPT !.pc = "e_get", !.kind = "loc", !.time = f.time]
         ELSE IF BeyondExitThreshold(f.sample, radius) /\ atWork = "true"
         THEN [Idle EXCEPT !.pc = "v_pos", !.kind = "loc", !.time = f.time]
         ELSE AfterCall(f)

LocGetIsAtWork(h) ==
    LET f == handlers[h] IN
    /\ f.pc = "l_atWork"
    /\ \/ Resolves /\ SetFrame(h, LocDecide(f, isAtWork))
       \/ Rejects /\ SetFrame(h, TaskCatch(f))
    /\ UNCHANGED <<storeVars, platformVars, timers, notif, prompts, now, ui,
                   homePending, created, nSignals, nUi, histVars,
                   alert, pureVars>>

\* line 201: setItem(LAST_LOCATION_CHECK, timestamp).  The key is read only
\* by the debugging getter of lines 691-698 and is not kept in the model.
LocSetLastCheck(h) ==
    LET f == handlers[h] IN
    /\ f.pc = "l_last"
    /\ \/ Resolves /\ SetFrame(h, Idle)
       \/ Rejects /\ SetFrame(h, TaskCatch(f))
    /\ UNCHANGED <<storeVars, platformVars, timers, notif, prompts, now, ui,
                   homePending, created, nSignals, nUi, histVars,
                   alert, pureVars>>

(* ---- handleWorkEntry, lines 260-294 ---- *)

\* line 267 without the duplicate-entry guard (mutant)
EntryGuardMissing(f, atWork) == Goto(f, "e_setEntered")

\* line 267 with the duplicate-entry guard applied
EntryGuard(f, atWork) ==
    IF atWork = "true" THEN AfterCall(f) ELSE Goto(f, "e_setEntered")

EntryGetIsAtWork(h) ==
    LET f == handlers[h] IN
    /\ f.pc = "e_get"
    /\ \/ Resolves /\ SetFrame(h, EntryGuard(f, isAtWork))
       \/ Rejects /\ SetFrame(h, EntryCatch(f))
    /\ UNCHANGED <<storeVars, platformVars, timers, notif, prompts, now, ui,
                   homePending, created, nSignals, nUi, histVars,
                   alert, pureVars>>

EntrySetEnteredTime(h) ==
    LET f == handlers[h] IN
    /\ f.pc = "e_setEntered"
    /\ \/ /\ Resolves
          /\ enteredTime' = f.time
          /\ SetFrame(h, Goto(f, "e_setAtWork"))
       \/ /\ Rejects
          /\ UNCHANGED enteredTime
          /\ SetFrame(h, EntryCatch(f))
    /\ UNCHANGED <<isAtWork, currentShift, pending, workLocation,
                   platformVars, timers, notif, prompts,
                   now, ui, homePending, created, nSignals, nUi, histVars,
                   alert, pureVars>>

EntrySetIsAtWork(h) ==
    LET f == handlers[h] IN
    /\ f.pc = "e_setAtWork"
    /\ \/ /\ Resolves
          /\ isAtWork' = "true"
          /\ session' = session + 1
          /\ entryLog' = Append(entryLog, f.time)
          /\ SetFrame(h, Goto(f, "e_notify"))
       \/ /\ Rejects
          /\ UNCHANGED <<isAtWork, session, entryLog>>
          /\ SetFrame(h, EntryCatch(f))
    /\ UNCHANGED <<enteredTime, currentShift, pending, workLocation,
                   platformVars, timers, notif, prompts,
                   now, ui, homePending, created, nSignals, nUi, appendLog,
                   removeLog, alert, pureVars>>

\* lines 276-289: the arrival notification, then setTimeout(checkStillAtWork)
EntryNotify(h) ==
    LET f == handlers[h] IN
    /\ f.pc = "e_notify"
    /\ \/ /\ Resolves
          /\ Bump("arrived")
          /\ timers' = [timers EXCEPT ![now] = @ + 1]
          /\ SetFrame(h, AfterCall(f))
       \/ /\ Rejects
          /\ UNCHANGED <<notif, timers>>
          /\ SetFrame(h, EntryCatch(f))
    /\ UNCHANGED <<storeVars, platformVars, prompts, now, ui, homePending,
                   created, nSignals, nUi, histVars, alert, pureVars>>

(* ---- validateAndHandleExit, lines 214-257 ---- *)

ToExit(f) == [Idle EXCEPT !.pc = "x_getAtWork", !.kind = f.kind, !.time = f.time]

\* the frame's fresh sample when getCurrentPositionAsync gave none
NoPosition == -1

\* lines 251-256, the catch after a failed position fetch: handleWorkExit is
\* called with the signal's exitTime, no fresh sample at hand
FailOpen(f) == [ToExit(f) EXCEPT !.fresh = NoPosition]

ValidateGetPosition(h) ==
    LET f == handlers[h] IN
    /\ f.pc = "v_pos"
    /\ \/ Resolves /\ \E d \in Distances : SetFrame(h, [f EXCEPT !.pc = "v_work", !.fresh = d])
       \/ Rejects /\ SetFrame(h, FailOpen(f))
    /\ UNCHANGED <<storeVars, platformVars, timers, notif, prompts, now, ui,
                   homePending, created, nSignals, nUi, histVars,
                   alert, pureVars>>

\* lines 224-249 with the exit accepted whenever the sample is beyond the
\* nominal radius (mutant: the exit buffer dropped)
ValidateDecideNoBuffer(f, work) ==
    IF work = None
    THEN AfterCall(f)
    ELSE IF f.fresh > work[1].radius THEN ToExit(f) ELSE AfterCall(f)

\* lines 224-249: no work location -> return; beyond the threshold ->
\* handleWorkExit; otherwise a false alarm
ValidateDecide(f, work) ==
    IF work = None
    THEN AfterCall(f)
    ELSE IF BeyondExitThreshold(f.fresh, work[1].radius)
         THEN ToExit(f)
         ELSE AfterCall(f)

ValidateGetWorkLocation(h) ==
    LET f == handlers[h] IN
    /\ f.pc = "v_work"
    /\ \/ Resolves /\ SetFrame(h, ValidateDecide(f, workLocation))
       \/ Rejects /\ SetFrame(h, ToExit(f))
    /\ UNCHANGED <<storeVars, platformVars, timers, notif, prompts, now, ui,
                   homePending, created, nSignals, nUi, histVars,
                   alert, pureVars>>

(* ---- handleWorkExit, lines 353-441 ---- *)

ExitGetIsAtWork(h) ==
    LET f == handlers[h] IN
    /\ f.pc = "x_getAtWork"
    /\ \/ Resolves /\ SetFrame(h, [f EXCEPT !.pc = "x_getShift",
                                     !.isAtWork = isAtWork, !.sess = session])
       \/ Rejects /\ SetFrame(h, ExitCatch(f))
    /\ UNCHANGED <<storeVars, platformVars, timers, notif, prompts, now, ui,
                   homePending, created, nSignals, nUi, histVars,
                   alert, pureVars>>

ExitGetCurrentShift(h) ==
    LET f == handlers[h] IN
    /\ f.pc = "x_getShift"
    /\ \/ Resolves /\ SetFrame(h, [f EXCEPT !.pc = "x_getEntered", !.shift = currentShift])
       \/ Rejects /\ SetFrame(h, ExitCatch(f))
    /\ UNCHANGED <<storeVars, platformVars, timers, notif, prompts, now, ui,
                   homePending, created, nSignals, nUi, histVars,
                   alert, pureVars>>

\* handleWorkExit recording the shift whatever its duration
ExitDecideNoMinimum(f, entered) ==
    IF f.isAtWork # "true"
    THEN AfterCall(f)
    ELSE LET shiftStartTime ==
                 IF f.shift # None THEN f.shift[1].startTime ELSE entered
         IN  IF shiftStartTime = None
             THEN ToClear(f, "nostart")
             ELSE [ToClear(f, "none") EXCEPT
                      !.pc = "x_getPending",
                      !.data = Some(ShiftData(shiftStartTime, f.time)),
                      !.sess = f.sess]

\* lines 364-397: not tracking -> return; no start time -> clearWorkState;
\* otherwise the shiftData and the duration test
ExitDecide(f, entered) ==
    IF f.isAtWork # "true"
    THEN AfterCall(f)
    ELSE LET shiftStartTime ==
                 IF f.shift # None THEN f.shift[1].startTime ELSE entered
         IN  IF shiftStartTime = None
             THEN ToClear(f, "nostart")
             ELSE LET shiftData == ShiftData(shiftStartTime, f.time) IN
                  IF shiftData.durationMinutes >= MinShiftMinutes
                  THEN [ToClear(f, "none") EXCEPT !.pc = "x_getPending",
                                          !.data = Some(shiftData),
                                          !.sess = f.sess]
                  ELSE [ToClear(f, "none") EXCEPT !.pc = "x_short"]

ExitGetEnteredTime(h) ==
    LET f == handlers[h] IN
    /\ f.pc = "x_getEntered"
    /\ \/ Resolves /\ SetFrame(h, ExitDecide(f, enteredTime))
       \/ Rejects /\ SetFrame(h, ExitCatch(f))
    /\ UNCHANGED <<storeVars, platformVars, timers, notif, prompts, now, ui,
                   homePending, created, nSignals, nUi, histVars,
                   alert, pureVars>>

ExitGetPending(h) ==
    LET f == handlers[h] IN
    /\ f.pc = "x_getPending"
    /\ \/ Resolves /\ SetFrame(h, [f EXCEPT !.pc = "x_setPending", !.pend = pending])
       \/ Rejects /\ SetFrame(h, ExitCatch(f))
    /\ UNCHANGED <<storeVars, platformVars, timers, notif, prompts, now, ui,
                   homePending, created, nSignals, nUi, histVars,
                   alert, pureVars>>

\* lines 411-412: pending.push(shiftData); setItem(PENDING_SHIFTS)
ExitSetPending(h) ==
    LET f == handlers[h] IN
    /\ f.pc = "x_setPending"
    /\ \/ /\ Resolves
          /\ pending' = Append(f.pend, f.data[1])
          /\ appendLog' = Append(appendLog, [shift |-> f.data[1], sess |-> f.sess])
          /\ SetFrame(h, [ToClear(f, "none") EXCEPT !.pc = "x_prompt",
                                                    !.data = f.data])
       \/ /\ Rejects
          /\ UNCHANGED <<pending, appendLog>>
          /\ SetFrame(h, ExitCatch(f))
    /\ UNCHANGED <<trackingVars, workLocation, platformVars,
                   timers, notif, prompts, now, ui, homePending, created,
                   nSignals, nUi, session, entryLog, removeLog, alert,
                   pureVars>>

\* sendShiftConfirmationNotification, lines 459-480 (catches its own errors)
ExitPrompt(h) ==
    LET f == handlers[h] IN
    /\ f.pc = "x_prompt"
    /\ \/ /\ Resolves
          /\ Bump("prompt")
          /\ prompts' = prompts \cup {f.data[1]}
       \/ /\ Rejects
          /\ UNCHANGED <<notif, prompts>>
    /\ SetFrame(h, [ToClear(f, "recorded") EXCEPT !.data = f.data])
    /\ UNCHANGED <<storeVars, platformVars, timers, now, ui, homePending,
                   created, nSignals, nUi, histVars, alert, pureVars>>

\* lines 420-428: the "Short Visit" notification
ExitShortNotice(h) ==
    LET f == handlers[h] IN
    /\ f.pc = "x_short"
    /\ \/ Resolves /\ Bump("short") /\ SetFrame(h, ToClear(f, "short"))
       \/ Rejects /\ UNCHANGED notif /\ SetFrame(h, ExitCatch(f))
    /\ UNCHANGED <<storeVars, platformVars, timers, prompts, now, ui,
                   homePending, created, nSignals, nUi, histVars,
                   alert, pureVars>>

(* ---- clearWorkState, lines 444-456 ---- *)

\* where control goes when handleWorkExit returns
AfterExit(f) == IF f.kind = "dwell" THEN Idle ELSE AfterCall(f)

\* the catch of clearWorkState (lines 453-455): logged, then the return
ClearCatch(f) == AfterExit(f)

ClearMultiRemove(h) ==
    LET f == handlers[h] IN
    /\ f.pc = "c_remove"
    /\ \/ /\ Resolves
          /\ currentShift' = None
          /\ enteredTime' = None
          /\ SetFrame(h, Goto(f, "c_setFalse"))
       \/ /\ Rejects
          /\ UNCHANGED <<currentShift, enteredTime>>
          /\ SetFrame(h, ClearCatch(f))
    /\ UNCHANGED <<isAtWork, pending, workLocation, platformVars, timers,
                   notif, prompts, now, ui, homePending,
                   created, nSignals, nUi, histVars, alert, pureVars>>

ClearSetIsAtWork(h) ==
    LET f == handlers[h] IN
    /\ f.pc = "c_setFalse"
    /\ \/ Resolves /\ isAtWork' = "false" /\ SetFrame(h, AfterExit(f))
       \/ Rejects /\ UNCHANGED isAtWork /\ SetFrame(h, ClearCatch(f))
    /\ UNCHANGED <<enteredTime, currentShift, pending, workLocation,
                   platformVars, timers, notif, prompts,
                   now, ui, homePending, created, nSignals, nUi, histVars,
                   alert, pureVars>>

(* ---- checkStillAtWork, lines 297-350 ---- *)

DwellGetIsAtWork(h) ==
    LET f == handlers[h] IN
    /\ f.pc = "d_getAtWork"
    /\ \/ Resolves /\ SetFrame(h, [f EXCEPT !.pc = "d_getEntered", !.isAtWork = isAtWork])
       \/ Rejects /\ SetFrame(h, CheckCatch(f))
    /\ UNCHANGED <<storeVars, platformVars, timers, notif, prompts, now, ui,
                   homePending, created, nSignals, nUi, histVars,
                   alert, pureVars>>

\* line 304
DwellGuard(f, entered) ==
    IF f.isAtWork = "true" /\ entered # None
    THEN [Idle EXCEPT !.pc = "d_pos", !.kind = "dwell", !.entered = entered]
    ELSE Idle

DwellGetEnteredTime(h) ==
    LET f == handlers[h] IN
    /\ f.pc = "d_getEntered"
    /\ \/ Resolves /\ SetFrame(h, DwellGuard(f, enteredTime))
       \/ Rejects /\ SetFrame(h, CheckCatch(f))
    /\ UNCHANGED <<storeVars, platformVars, timers, notif, prompts, now, ui,
                   homePending, created, nSignals, nUi, histVars,
                   alert, pureVars>>

DwellGetPosition(h) ==
    LET f == handlers[h] IN
    /\ f.pc = "d_pos"
    /\ \/ Resolves /\ \E d \in Distances : SetFrame(h, [f EXCEPT !.pc = "d_work", !.fresh = d])
       \/ Rejects /\ SetFrame(h, CheckCatch(f))
    /\ UNCHANGED <<storeVars, platformVars, timers, notif, prompts, now, ui,
                   homePending, created, nSignals, nUi, histVars,
                   alert, pureVars>>

\* checkStillAtWork treating every recheck as a departure
DwellDecideNeverConfirms(f, work, t) ==
    IF work = None
    THEN Idle
    ELSE [Idle EXCEPT !.pc = "x_getAtWork", !.kind = "dwell", !.time = t]

\* lines 311-343: still inside -> confirm the shift; outside ->
\* handleWorkExit(new Date().toISOString())
DwellDecide(f, work, t) ==
    IF work = None
    THEN Idle
    ELSE IF f.fresh <= work[1].radius
         THEN [f EXCEPT !.pc = "d_setShift", !.fresh = 0]
         ELSE [Idle EXCEPT !.pc = "x_getAtWork", !.kind = "dwell", !.time = t]

DwellGetWorkLocation(h) ==
    LET f == handlers[h] IN
    /\ f.pc = "d_work"
    /\ \/ Resolves /\ Observe /\ SetFrame(h, DwellDecide(f, workLocation, Now'))
       \/ Rejects /\ UNCHANGED now /\ SetFrame(h, CheckCatch(f))
    /\ UNCHANGED <<storeVars, platformVars, timers, notif, prompts, ui,
                   homePending, created, nSignals, nUi, histVars,
                   alert, pureVars>>

DwellSetCurrentShift(h) ==
    LET f == handlers[h] IN
    /\ f.pc = "d_setShift"
    /\ \/ /\ Resolves
          /\ currentShift' = Some([startTime |-> f.entered, confirmed |-> TRUE])
          /\ SetFrame(h, [Idle EXCEPT !.pc = "d_notify", !.kind = "dwell"])
       \/ /\ Rejects
          /\ UNCHANGED currentShift
          /\ SetFrame(h, CheckCatch(f))
    /\ UNCHANGED <<isAtWork, enteredTime, pending, workLocation,
                   platformVars, timers, notif, prompts,
                   now, ui, homePending, created, nSignals, nUi, histVars,
                   alert, pureVars>>

DwellNotify(h) ==
    LET f == handlers[h] IN
    /\ f.pc = "d_notify"
    /\ \/ Resolves /\ Bump("confirmed") /\ SetFrame(h, Idle)
       \/ Rejects /\ UNCHANGED notif /\ SetFrame(h, CheckCatch(f))
    /\ UNCHANGED <<storeVars, platformVars, timers, prompts, now, ui,
                   homePending, created, nSignals, nUi, histVars,
                   alert, pureVars>>

HandlerStep(h) ==
    \/ LocGetWorkLocation(h) \/ LocGetIsAtWork(h) \/ LocSetLastCheck(h)
    \/ EntryGetIsAtWork(h) \/ EntrySetEnteredTime(h) \/ EntrySetIsAtWork(h)
    \/ EntryNotify(h)
    \/ ValidateGetPosition(h) \/ ValidateGetWorkLocation(h)
    \/ ExitGetIsAtWork(h) \/ ExitGetCurrentShift(h) \/ ExitGetEnteredTime(h)
    \/ ExitGetPending(h) \/ ExitSetPending(h) \/ ExitPrompt(h)
    \/ ExitShortNotice(h)
    \/ ClearMultiRemove(h) \/ ClearSetIsAtWork(h)
    \/ DwellGetIsAtWork(h) \/ DwellGetEnteredTime(h) \/ DwellGetPosition(h)
    \/ DwellGetWorkLocation(h) \/ DwellSetCurrentShift(h) \/ DwellNotify(h)

Signal(h) ==
    \/ \E eventType \in {"Enter", "Exit"} : GeofenceTask(h, eventType)
    \/ \E distance \in Distances : LocationTask(h, distance)
    \/ \E i \in 1..Len(Clock) : DwellTimer(h, i)
    \/ ForceExit(h)

----------------------------------------------------------------------------
(* Foreground operations: GeofencingService.startGeofencing and            *)
(* stopGeofencing, HomeScreen.confirmShift, EditShiftScreen.handleSave.    *)
(* One runs at a time; the background handlers run in between its awaits.  *)

UiBegin == ui.pc = "idle" /\ nUi < limit.ui /\ nUi' = nUi + 1
UiGoto(pc) == ui' = [ui EXCEPT !.pc = pc]
UiDone == ui' = UiIdle

\* startGeofencing / stopGeofencing rethrow to their caller (lines 569-572,
\* 601-604); the idle frame keeps what the last call threw
UiThrow(message) == ui' = [UiIdle EXCEPT !.thrown = message]

(* ---- startGeofencing, lines 500-573 ---- *)

CallStartGeofencing ==
    /\ UiBegin
    /\ ui' = [UiIdle EXCEPT !.pc = "s_foreground", !.op = "start"]
    /\ UNCHANGED <<storeVars, platformVars, timers, notif, prompts, now,
                   handlers, homePending, created, nSignals, nFail, histVars,
                   alert, pureVars>>

\* lines 510-518 placed after the store of the work location (mutant)
StartPermissionAfterStore(step, next) ==
    /\ ui.pc = step
    /\ \E status \in {"granted", "denied"} :
         IF status = "granted"
         THEN UiGoto(next) /\ UNCHANGED workLocation
         ELSE /\ workLocation' = Some([radius |-> DefaultRadius])
              /\ UiThrow("permission")
    /\ UNCHANGED <<trackingVars, pending, platformVars, timers, notif,
                   prompts, now, handlers, homePending, created, nSignals,
                   nFail, nUi, histVars, alert, pureVars>>

\* lines 510-518: either permission not granted throws
StartPermission(step, next) ==
    /\ ui.pc = step
    /\ \E status \in {"granted", "denied"} :
         IF status = "granted" THEN UiGoto(next) ELSE UiThrow("permission")
    /\ UNCHANGED <<storeVars, platformVars, timers, notif, prompts, now,
                   handlers, homePending, created, nSignals, nFail, nUi,
                   histVars, alert, pureVars>>

StartForegroundPermission == StartPermission("s_foreground", "s_background")
StartBackgroundPermission == StartPermission("s_background", "s_setWork")

StartSetWorkLocation ==
    /\ ui.pc = "s_setWork"
    /\ \/ /\ Resolves
          /\ workLocation' = Some([radius |-> DefaultRadius])
          /\ UiGoto("s_isActive")
       \/ /\ Rejects
          /\ UNCHANGED workLocation
          /\ UiThrow("rejected")
    /\ UNCHANGED <<trackingVars, pending, platformVars,
                   timers, notif, prompts, now, handlers, homePending, created,
                   nSignals, nUi, histVars, alert, pureVars>>

\* lines 529-534 with isGeofencingActive (608-615), which answers false
\* when the platform call rejects
StartIsActive ==
    /\ ui.pc = "s_isActive"
    /\ \/ Resolves /\ UiGoto(IF geofencing THEN "t_hasGeo" ELSE "s_startGeo")
       \/ Rejects /\ UiGoto("s_startGeo")
    /\ UNCHANGED <<storeVars, platformVars, timers, notif, prompts, now,
                   handlers, homePending, created, nSignals, nUi, histVars,
                   alert, pureVars>>

\* line 533: the one-second pause after the nested stopGeofencing
StartPause ==
    /\ ui.pc = "s_pause"
    /\ UiGoto("s_startGeo")
    /\ UNCHANGED <<storeVars, platformVars, timers, notif, prompts, now,
                   handlers, homePending, created, nSignals, nFail, nUi,
                   histVars, alert, pureVars>>

StartGeofencingAsync ==
    /\ ui.pc = "s_startGeo"
    /\ \/ Resolves /\ geofencing' = TRUE /\ UiGoto("s_startLoc")
       \/ Rejects /\ UNCHANGED geofencing /\ UiThrow("rejected")
    /\ UNCHANGED <<storeVars, locationUpdates, timers, notif, prompts, now,
                   handlers, homePending, created, nSignals, nUi, histVars,
                   alert, pureVars>>

StartLocationUpdatesAsync ==
    /\ ui.pc = "s_startLoc"
    /\ \/ Resolves /\ locationUpdates' = TRUE /\ UiDone
       \/ Rejects /\ UNCHANGED locationUpdates /\ UiThrow("rejected")
    /\ UNCHANGED <<storeVars, geofencing, timers, notif, prompts, now,
                   handlers, homePending, created, nSignals, nUi, histVars,
                   alert, pureVars>>

(* ---- stopGeofencing, lines 576-605 ---- *)

CallStopGeofencing ==
    /\ UiBegin
    /\ ui' = [UiIdle EXCEPT !.pc = "t_hasGeo", !.op = "stop"]
    /\ UNCHANGED <<storeVars, platformVars, timers, notif, prompts, now,
                   handlers, homePending, created, nSignals, nFail, histVars,
                   alert, pureVars>>

StopHasStartedGeofencing ==
    /\ ui.pc = "t_hasGeo"
    /\ \/ Resolves /\ UiGoto(IF geofencing THEN "t_stopGeo" ELSE "t_hasLoc")
       \/ Rejects /\ UiThrow("rejected")
    /\ UNCHANGED <<storeVars, platformVars, timers, notif, prompts, now,
                   handlers, homePending, created, nSignals, nUi, histVars,
                   alert, pureVars>>

StopGeofencingAsync ==
    /\ ui.pc = "t_stopGeo"
    /\ \/ Resolves /\ geofencing' = FALSE /\ UiGoto("t_hasLoc")
       \/ Rejects /\ UNCHANGED geofencing /\ UiThrow("rejected")
    /\ UNCHANGED <<storeVars, locationUpdates, timers, notif, prompts, now,
                   handlers, homePending, created, nSignals, nUi, histVars,
                   alert, pureVars>>

StopHasStartedLocationUpdates ==
    /\ ui.pc = "t_hasLoc"
    /\ \/ Resolves /\ UiGoto(IF locationUpdates THEN "t_stopLoc" ELSE "t_remove")
       \/ Rejects /\ UiThrow("rejected")
    /\ UNCHANGED <<storeVars, platformVars, timers, notif, prompts, now,
                   handlers, homePending, created, nSignals, nUi, histVars,
                   alert, pureVars>>

StopLocationUpdatesAsync ==
    /\ ui.pc = "t_stopLoc"
    /\ \/ Resolves /\ locationUpdates' = FALSE /\ UiGoto("t_remove")
       \/ Rejects /\ UNCHANGED locationUpdates /\ UiThrow("rejected")
    /\ UNCHANGED <<storeVars, geofencing, timers, notif, prompts, now,
                   handlers, homePending, created, nSignals, nUi, histVars,
                   alert, pureVars>>

\* lines 592-597 with KEYS.WORK_LOCATION left out of the removal (mutant)
StopMultiRemoveKeepsSite ==
    /\ ui.pc = "t_remove"
    /\ \/ /\ Resolves
          /\ isAtWork' = "null"
          /\ enteredTime' = None
          /\ currentShift' = None
          /\ UNCHANGED workLocation
          /\ IF ui.op = "start" THEN UiGoto("s_pause") ELSE UiDone
       \/ /\ Rejects
          /\ UNCHANGED <<trackingVars, workLocation>>
          /\ UiThrow("rejected")
    /\ UNCHANGED <<pending, platformVars, timers, notif,
                   prompts, now, handlers, homePending, created, nSignals, nUi,
                   histVars, alert, pureVars>>

\* lines 592-597; a stop nested in startGeofencing returns to its pause
StopMultiRemove ==
    /\ ui.pc = "t_remove"
    /\ \/ /\ Resolves
          /\ isAtWork' = "null"
          /\ enteredTime' = None
          /\ currentShift' = None
          /\ workLocation' = None
          /\ IF ui.op = "start" THEN UiGoto("s_pause") ELSE UiDone
       \/ /\ Rejects
          /\ UNCHANGED <<trackingVars, workLocation>>
          /\ UiThrow("rejected")
    /\ UNCHANGED <<pending, platformVars, timers, notif,
                   prompts, now, handlers, homePending, created, nSignals, nUi,
                   histVars, alert, pureVars>>

(* ---- the pending queue: getPendingShifts, removePendingShift ---- *)

\* Array.prototype.findIndex with HomeScreen's test (line 60); 0-based, -1
\* when nothing matches
FindIndex(list, shiftData) ==
    LET hits == { i \in 1..Len(list) :
                    /\ list[i].startTime = shiftData.startTime
                    /\ list[i].endTime = shiftData.endTime }
    IN  IF hits = {} THEN -1
        ELSE (CHOOSE i \in hits : \A j \in hits : i <= j) - 1

\* Array.prototype.splice(index, 1): a negative index counts from the end
Splice(list, index) ==
    LET len == Len(list)
        start == IF index < 0
                 THEN (IF len + index < 0 THEN 0 ELSE len + index)
                 ELSE (IF index > len THEN len ELSE index)
    IN  [ i \in 1..(IF start < len THEN len - 1 ELSE len) |->
            IF i <= start THEN list[i] ELSE list[i + 1] ]

\* the row WorkShiftService.createShift inserts (supabase.js:21-39)
Row(data) ==
    [ startTime |-> data.startTime, endTime |-> data.endTime,
      durationMinutes |-> data.durationMinutes, date |-> data.date ]

\* HomeScreen.loadPendingShifts (lines 49-52), run on focus and on refresh;
\* getPendingShifts answers [] when the read rejects (lines 631-639)
LoadPendingShifts ==
    /\ ui.pc = "idle"
    /\ \/ Resolves /\ homePending' = pending
       \/ Rejects /\ homePending' = <<>>
    /\ homePending' # homePending
    /\ UNCHANGED <<storeVars, platformVars, timers, notif, prompts, now,
                   handlers, ui, created, nSignals, nUi, histVars,
                   alert, pureVars>>

(* ---- HomeScreen.confirmShift, lines 54-71 ---- *)

\* Alert.alert(title, ...) on the screen that runs the operation
Screen == IF ui.op = "edit" THEN "EditShiftScreen" ELSE "HomeScreen"
ShowAlert(screen, title) == alert' = <<screen, title>>

\* the tick button of a listed pending shift (line 255)
ConfirmFromList(i) ==
    /\ UiBegin
    /\ i \in 1..Len(homePending)
    /\ ui' = [UiIdle EXCEPT !.pc = "a_create", !.op = "accept",
                            !.shift = Some(homePending[i]),
                            !.index = FindIndex(homePending, homePending[i])]
    /\ UNCHANGED <<storeVars, platformVars, timers, notif, prompts, now,
                   handlers, homePending, created, nSignals, nFail, histVars,
                   alert, pureVars>>

\* the CONFIRM_YES action of a confirmation prompt (lines 34-38)
ConfirmFromNotification(shiftData) ==
    /\ UiBegin
    /\ shiftData \in prompts
    /\ ui' = [UiIdle EXCEPT !.pc = "a_create", !.op = "accept",
                            !.shift = Some(shiftData),
                            !.index = FindIndex(homePending, shiftData)]
    /\ UNCHANGED <<storeVars, platformVars, timers, notif, prompts, now,
                   handlers, homePending, created, nSignals, nFail, histVars,
                   alert, pureVars>>

\* a catch that went on to removePendingShift although createShift threw
\* (mutant)
CreateRejectedStillRemoves == UiGoto("a_read") /\ UNCHANGED alert

\* the catch of confirmShift (lines 65-68) and of handleSave (lines 76-79)
CreateRejected == ShowAlert(Screen, "Error") /\ UiDone

\* HomeScreen line 57 and EditShiftScreen line 66: createShift, then
\* removePendingShift unless the edit screen was opened without an index
CreateShift ==
    /\ ui.pc = "a_create"
    /\ \/ /\ Resolves
          /\ created' = Append(created, Row(IF ui.op = "edit" THEN ui.draft[1]
                                                             ELSE ui.shift[1]))
          /\ IF ui.op = "edit" /\ ui.index = -2
             THEN /\ ShowAlert(Screen, "Success")
                  /\ UiDone
                  /\ UNCHANGED removeLog
             ELSE /\ UiGoto("a_read")
                  /\ removeLog' = Append(removeLog, ui.shift[1])
                  /\ UNCHANGED alert
       \/ /\ Rejects
          /\ CreateRejected
          /\ UNCHANGED <<created, removeLog>>
    /\ UNCHANGED <<storeVars, platformVars, timers, notif, prompts, now,
                   handlers, homePending, nSignals, nUi, session, entryLog,
                   appendLog,
                   pureVars>>

\* removePendingShift line 653: getPendingShifts ([] when the read rejects)
RemoveGetPending ==
    /\ ui.pc = "a_read"
    /\ \/ Resolves /\ ui' = [ui EXCEPT !.pc = "a_write", !.pend = pending]
       \/ Rejects /\ ui' = [ui EXCEPT !.pc = "a_write", !.pend = <<>>,
                                      !.caught = TRUE]
    /\ UNCHANGED <<storeVars, platformVars, timers, notif, prompts, now,
                   handlers, homePending, created, nSignals, nUi, histVars,
                   alert, pureVars>>

\* removePendingShift lines 654-655: splice and setItem, a rejection only
\* logged; confirmShift then reloads the list (line 63), handleSave alerts
RemoveSetPending ==
    /\ ui.pc = "a_write"
    /\ \/ Resolves /\ pending' = Splice(ui.pend, ui.index)
       \/ Rejects /\ UNCHANGED pending
    /\ IF ui.op = "accept"
       THEN /\ ui' = [UiIdle EXCEPT !.pc = "a_load", !.op = "accept"]
            /\ UNCHANGED alert
       ELSE /\ ShowAlert(Screen, "Success")
            /\ UiDone
    /\ UNCHANGED <<trackingVars, workLocation, platformVars,
                   timers, notif, prompts, now, handlers, homePending, created,
                   nSignals, nUi, histVars, pureVars>>

\* lines 63-64: loadPendingShifts, then the success alert
ConfirmReload ==
    /\ ui.pc = "a_load"
    /\ \/ Resolves /\ homePending' = pending
       \/ Rejects /\ homePending' = <<>>
    /\ ShowAlert(Screen, "Success")
    /\ UiDone
    /\ UNCHANGED <<storeVars, platformVars, timers, notif, prompts, now,
                   handlers, created, nSignals, nUi, histVars, pureVars>>

(* ---- EditShiftScreen.handleSave, lines 43-80 ---- *)

\* date-fns differenceInMinutes: whole minutes, truncated towards zero
DifferenceInMinutes(dateLeft, dateRight) ==
    LET diff == dateLeft - dateRight IN
    IF diff >= 0 THEN diff \div 60000 ELSE -((-diff) \div 60000)

\* The times the user may pick in the two pickers: the shift as it is, an
\* end equal to the start, an end ten minutes after the start, and an end
\* half an hour later than recorded.
Drafts(shiftData) ==
    LET s == NewDate(shiftData.startTime)
        e == NewDate(shiftData.endTime)
    IN  { <<s, e>>, <<s, s>>, <<s, s + 10 * 60000>>, <<s, e + 30 * 60000>> }

\* lines 58-63
UpdatedShiftData(startTime, endTime) ==
    [ startTime |-> ToISOString(startTime), endTime |-> ToISOString(endTime),
      durationMinutes |-> DifferenceInMinutes(endTime, startTime),
      date |-> FormatDate(startTime) ]

\* lines 45-57 without the 15-minute validation of lines 52-55 (mutant)
SaveBeginNoMinimum(shiftData, index, draft) ==
    LET durationMinutes == DifferenceInMinutes(draft[2], draft[1]) IN
    IF durationMinutes <= 0
    THEN ShowAlert("EditShiftScreen", "Invalid Time") /\ UiDone
    ELSE /\ ui' = [UiIdle EXCEPT !.pc = "h_user", !.op = "edit",
                                 !.shift = Some(shiftData), !.index = index,
                                 !.draft = Some(UpdatedShiftData(draft[1],
                                                                 draft[2]))]
         /\ UNCHANGED alert

\* lines 45-57: the two validations, then the read of user_id
SaveBegin(shiftData, index, draft) ==
    LET durationMinutes == DifferenceInMinutes(draft[2], draft[1]) IN
    IF durationMinutes <= 0
    THEN ShowAlert("EditShiftScreen", "Invalid Time") /\ UiDone
    ELSE IF durationMinutes < MinShiftMinutes
    THEN ShowAlert("EditShiftScreen", "Invalid Duration") /\ UiDone
    ELSE /\ ui' = [UiIdle EXCEPT !.pc = "h_user", !.op = "edit",
                                 !.shift = Some(shiftData), !.index = index,
                                 !.draft = Some(UpdatedShiftData(draft[1],
                                                                 draft[2]))]
         /\ UNCHANGED alert

\* opened from the pending list with its index (HomeScreen line 261)
SaveFromList(i) ==
    /\ UiBegin
    /\ i \in 1..Len(homePending)
    /\ \E draft \in Drafts(homePending[i]) :
         SaveBegin(homePending[i], i - 1, draft)
    /\ UNCHANGED <<storeVars, platformVars, timers, notif, prompts, now,
                   handlers, homePending, created, nSignals, nFail, histVars,
                   pureVars>>

\* opened from a prompt's CONFIRM_NO action, without an index (line 40)
SaveFromNotification(shiftData) ==
    /\ UiBegin
    /\ shiftData \in prompts
    /\ \E draft \in Drafts(shiftData) : SaveBegin(shiftData, -2, draft)
    /\ UNCHANGED <<storeVars, platformVars, timers, notif, prompts, now,
                   handlers, homePending, created, nSignals, nFail, histVars,
                   pureVars>>

\* line 56: getItem('user_id'); a rejection goes to the catch
SaveGetUserId ==
    /\ ui.pc = "h_user"
    /\ \/ Resolves /\ UiGoto("a_create") /\ UNCHANGED alert
       \/ Rejects /\ ShowAlert(Screen, "Error") /\ UiDone
    /\ UNCHANGED <<storeVars, platformVars, timers, notif, prompts, now,
                   handlers, homePending, created, nSignals, nUi, histVars,
                   pureVars>>

StartOps ==
    \/ CallStartGeofencing \/ StartForegroundPermission
    \/ StartBackgroundPermission \/ StartSetWorkLocation \/ StartIsActive
    \/ StartGeofencingAsync \/ StartLocationUpdatesAsync

StopOps ==
    \/ CallStopGeofencing \/ StopHasStartedGeofencing \/ StopGeofencingAsync
    \/ StopHasStartedLocationUpdates \/ StopLocationUpdatesAsync
    \/ StopMultiRemove \/ StartPause

QueueOps ==
    \/ LoadPendingShifts
    \/ \E i \in 1..Len(homePending) : ConfirmFromList(i) \/ SaveFromList(i)
    \/ \E shiftData \in prompts :
         ConfirmFromNotification(shiftData) \/ SaveFromNotification(shiftData)
    \/ CreateShift \/ RemoveGetPending \/ RemoveSetPending \/ ConfirmReload
    \/ SaveGetUserId

Background == \E h \in Slots : Signal(h) \/ HandlerStep(h)

Next == Background \/ StartOps \/ StopOps \/ QueueOps

Spec == Init /\ [][Next]_vars

\* One background handler at a time, tracking started and stopped.
SerialInit ==
    /\ MainInit
    /\ limit = Limits(1, SerialSignals, MaxFailures, MaxUiOps)
    /\ pin = None
    /\ pout = None

SpecSerial == SerialInit /\ [][Background \/ StartOps \/ StopOps]_vars

\* One background handler at a time with two I/O errors, tracking started.
FaultyInit ==
    /\ MainInit
    /\ limit = Limits(1, SerialSignals, TwoFailures, 1)
    /\ pin = None
    /\ pout = None

SpecFaulty == FaultyInit /\ [][Background \/ StartOps]_vars

\* Background handlers interleaving at their awaits, tracking started once.
RaceInit ==
    /\ MainInit
    /\ limit = Limits(MaxHandlers, RaceSignals, 0, 1)
    /\ pin = None
    /\ pout = None

SpecRace == RaceInit /\ [][Background \/ StartOps]_vars

\* One background handler at a time and the confirmation workflow.
QueueInit ==
    /\ MainInit
    /\ limit = Limits(1, MaxSignals, 0, MaxUiOps)
    /\ pin = None
    /\ pout = None

SpecQueue == QueueInit /\ [][Background \/ StartOps \/ QueueOps]_vars

\* The same workflow with fewer signals and a platform call that rejects.
SpecQueueFaulty == SerialInit /\ [][Background \/ StartOps \/ QueueOps]_vars

\* One visit and a user who goes through the confirmation workflow twice.
RepeatInit ==
    /\ MainInit
    /\ limit = Limits(1, RepeatSignals, 0, RepeatUiOps)
    /\ pin = None
    /\ pout = None

SpecRepeat == RepeatInit /\ [][Background \/ StartOps \/ QueueOps]_vars

----------------------------------------------------------------------------
(* The pure functions on their own: roundTime and the shift finalization *)

MakeTime(day, h, m, s, ms) == NewDate(<<day, h, m, s, ms>>)

PureTimes(days, hours) ==
    { MakeTime(d, h, m, sm[1], sm[2]) :
        d \in days, h \in hours, m \in 0..59, sm \in {<<0, 0>>, <<59, 999>>} }

RoundInit ==
    /\ MainInit
    /\ limit = FullLimits
    /\ pin \in { <<t>> : t \in PureTimes(0..MaxDay, {9, 23}) }
    /\ pout = None

ApplyRound ==
    /\ pout = None
    /\ pout' = Some(RoundTime(pin[1]))
    /\ UNCHANGED <<mainVars, pin, limit>>

\* roundTime applied to its own result
ApplyRoundAgain ==
    /\ Len(pout) = 1
    /\ pout' = Append(pout, RoundTime(pout[1]))
    /\ UNCHANGED <<mainVars, pin, limit>>

SpecRound == RoundInit /\ [][ApplyRound \/ ApplyRoundAgain]_vars

FinalizeInit ==
    /\ MainInit
    /\ limit = FullLimits
    /\ pin \in { <<ToISOString(a), ToISOString(b)>> :
                   a \in PureTimes({0}, {9, 23}),
                   b \in PureTimes(0..MaxDay, {9, 17, 23}) }
    /\ pout = None

\* handleWorkExit, lines 381-429, without the store: a shiftData or a discard
ApplyFinalize ==
    /\ pout = None
    /\ LET shiftData == ShiftData(pin[1], pin[2]) IN
         \/ /\ shiftData.durationMinutes >= MinShiftMinutes
            /\ pout' = Some(shiftData)
         \/ /\ ~(shiftData.durationMinutes >= MinShiftMinutes)
            /\ pout' = Some([durationMinutes |-> shiftData.durationMinutes])
    /\ UNCHANGED <<mainVars, pin, limit>>

SpecFinalize == FinalizeInit /\ [][ApplyFinalize]_vars

----------------------------------------------------------------------------
(* Properties of the tracking state machine *)

\* TrackingState as clearWorkState leaves it
Cleared == isAtWork = "false" /\ enteredTime = None /\ currentShift = None

\* a handler leaves clearWorkState, and with it handleWorkExit
ExitReturns(h) ==
    /\ handlers[h].pc \in {"c_remove", "c_setFalse"}
    /\ handlers'[h].pc \notin {"c_remove", "c_setFalse"}

\* C1: exit handlers that interleave within one work session append exactly
\* one PendingShift: the stored queue never holds two shifts of the same
\* session (the same original entry time).  (SpecRace; the code violates it)
C1_OneShiftPerSession ==
    \A i, j \in DOMAIN pending :
        pending[i].originalStartTime = pending[j].originalStartTime => i = j

\* C2: once stopGeofencing has completed (nothing registered, the stored
\* work location removed, no foreground operation running), a late ENTER
\* does not mark the user at work or store an entry time.  (SpecSerial; the
\* code violates it)
C2_NoEntryAfterStop ==
    (/\ ~geofencing
     /\ ~locationUpdates
     /\ workLocation = None
     /\ ui.pc = "idle")
    => (isAtWork # "true" /\ enteredTime = None)

C8_ShortVisitCleared ==
    [][\A h \in Slots :
         (ExitReturns(h) /\ handlers[h].path = "short")
         => (Cleared' /\ UNCHANGED pending)]_vars

\* C9: whenever handleWorkExit was invoked with isAtWork true, TrackingState
\* is cleared when it returns, whatever happened on the way.  (SpecSerial;
\* the code violates it)
C9_ExitAlwaysClears ==
    [][\A h \in Slots :
         (ExitReturns(h) /\ handlers[h].isAtWork = "true") => Cleared']_vars

\* C14: an ENTER handled while isAtWork is already true (handleWorkEntry
\* reading IS_AT_WORK, or the location task deciding on an in-radius sample)
\* ends the handler's work on it: enteredTime, currentShift and the pending
\* queue are unchanged, no notification is emitted, no dwell check is
\* scheduled and the entry is not taken up.  (SpecSerial)
C14_DuplicateEnterIsNoOp ==
    [][\A h \in Slots :
         (/\ handlers'[h] # handlers[h]
          /\ isAtWork = "true"
          /\ \/ handlers[h].pc = "e_get"
             \/ /\ handlers[h].pc = "l_atWork"
                /\ handlers[h].work # None
                /\ handlers[h].sample <= handlers[h].work[1].radius)
         => /\ handlers'[h].pc \in {"idle", "l_last"}
            /\ UNCHANGED <<isAtWork, enteredTime, currentShift, pending,
                           notif, timers, prompts, session>>]_vars

\* A second geofence ENTER is reading IS_AT_WORK after the first one was
\* recorded and announced.
C14_Witness ==
    \E h \in Slots :
        /\ handlers[h].pc = "e_get"
        /\ handlers[h].kind = "geo"
        /\ handlers[h].time = Clock[2]
        /\ isAtWork = "true"
        /\ enteredTime = Clock[1]
        /\ notif.arrived = 1

\* C15: when the fresh-position fetch of an exit validation fails at work,
\* the exit is accepted anyway: handleWorkExit runs with the signal's time,
\* a shift it records ends at that time, and when it returns TrackingState
\* is cleared.  (SpecFaulty; the code violates the last part)
C15_FailOpenExit ==
    [][\A h \in Slots :
         /\ (/\ handlers[h].pc = "v_pos"
             /\ handlers'[h] # handlers[h]
             /\ nFail' # nFail)
            => /\ handlers'[h].pc = "x_getAtWork"
               /\ handlers'[h].time = handlers[h].time
         /\ (/\ handlers[h].fresh = NoPosition
             /\ pending' # pending
             /\ handlers'[h] # handlers[h])
            => pending'[Len(pending')].originalEndTime = handlers[h].time
         /\ (/\ ExitReturns(h)
             /\ handlers[h].fresh = NoPosition
             /\ handlers[h].isAtWork = "true")
            => Cleared']_vars

\* C16: when a location permission is not granted, startGeofencing throws
\* to its caller having changed nothing: from the call up to the throw its
\* steps leave the stored work location, TrackingState, the pending queue
\* and the registered listeners as they were.  (SpecSerial)
C16_DeniedStartChangesNothing ==
    [][(/\ ui' # ui
        /\ \/ ui'.pc \in {"s_foreground", "s_background"}
           \/ ui.pc \in {"s_foreground", "s_background"} /\ ui'.pc = "idle")
       => /\ UNCHANGED <<workLocation, trackingVars, pending, platformVars>>
          /\ ui'.pc = "idle" => ui'.thrown = "permission"]_vars

\* A second startGeofencing, called while tracking with the user at work,
\* has thrown for a denied permission; the site, the entry and both
\* listeners are still there.
C16_Witness ==
    /\ ui.pc = "idle"
    /\ ui.thrown = "permission"
    /\ nUi = 2
    /\ workLocation = Some([radius |-> DefaultRadius])
    /\ geofencing
    /\ locationUpdates
    /\ isAtWork = "true"
    /\ enteredTime # None

\* C17: at every await of every handler the stored TrackingState has
\* enteredTime present exactly when isAtWork is 'true'.  (SpecSerial; the
\* code violates it)
C17_EnteredIffAtWork ==
    (enteredTime # None) <=> (isAtWork = "true")

\* C18: when stopGeofencing returns without throwing, neither listener is
\* registered and IS_AT_WORK, ENTERED_TIME, CURRENT_SHIFT and WORK_LOCATION
\* are all absent from the store.  (SpecSerial)
C18_StopLeavesNothing ==
    [][(/\ ui.op = "stop"
        /\ ui.pc # "idle"
        /\ ui'.pc = "idle"
        /\ ui'.thrown = "none")
       => /\ ~geofencing'
          /\ ~locationUpdates'
          /\ isAtWork' = "null"
          /\ enteredTime' = None
          /\ currentShift' = None
          /\ workLocation' = None]_vars

\* Tracking was started, an arrival was announced, and the second foreground
\* call - stopGeofencing, the only one that removes the work location - has
\* returned without an error.
C18_Witness ==
    /\ ui = UiIdle
    /\ nUi = 2
    /\ nFail = 0
    /\ notif.arrived = 1
    /\ ~geofencing
    /\ ~locationUpdates
    /\ workLocation = None
    /\ isAtWork = "null"
    /\ enteredTime = None

\* C21: every exit processed for an active session ends with its notice:
\* when handleWorkExit, having read isAtWork true, returns with the session
\* cleared, it took the path of a recorded shift or of a short visit (never
\* the catch), the prompt of a recorded shift was dispatched and so was the
\* notice of a short visit.  (SpecSerial; the code violates it)
C21_ExitEndsWithNotice ==
    [][\A h \in Slots :
         /\ (/\ ExitReturns(h)
             /\ handlers[h].isAtWork = "true"
             /\ Cleared')
            => handlers[h].path \in {"recorded", "short"}
         /\ (handlers[h].pc = "x_prompt" /\ handlers'[h] # handlers[h])
            => /\ notif'.prompt = notif.prompt + 1
               /\ handlers[h].data[1] \in prompts'
         /\ (handlers[h].pc = "x_short" /\ handlers'[h] # handlers[h])
            => notif'.short = notif.short + 1]_vars

Stopped ==
    /\ ~geofencing
    /\ ~locationUpdates
    /\ workLocation = None
    /\ ui.pc = "idle"
    /\ isAtWork # "true"
    /\ enteredTime = None
    /\ currentShift = None

\* C23: after stopGeofencing has completed, every step of a handler that is
\* not running handleWorkEntry - a late EXIT, a position sample, a dwell
\* callback, or a handler resuming from before the stop - is a no-op:
\* TrackingState stays absent (isAtWork not 'true', no entry time, no
\* confirmed shift), the pending queue is unchanged and no notification is
\* emitted.  (SpecSerial; the code violates it)
C23_LateSignalIsNoOp ==
    [][\A h \in Slots :
         (/\ Stopped
          /\ handlers'[h] # handlers[h]
          /\ handlers[h].pc \notin {"e_get", "e_setEntered", "e_setAtWork",
                                    "e_notify"})
         => /\ isAtWork' # "true"
            /\ enteredTime' = None
            /\ currentShift' = None
            /\ UNCHANGED <<pending, notif>>]_vars

\* C24: producing a PendingShift and clearing TrackingState are atomic for
\* later signals: when an exit that built a shift (rounded duration of 15
\* minutes or more) sets isAtWork to 'false', the stored queue holds that
\* session's shift with those rounded times; the shift is never lost with
\* the session cleared.  (SpecSerial, where nothing removes from the queue;
\* the code violates it)
C24_ShiftStoredWhenCleared ==
    [][\A h \in Slots :
         (/\ handlers[h].pc = "c_setFalse"
          /\ handlers[h].data # None
          /\ handlers'[h] # handlers[h]
          /\ isAtWork' = "false")
         => \E i \in DOMAIN pending' :
              /\ pending'[i].originalStartTime =
                    handlers[h].data[1].originalStartTime
              /\ pending'[i].startTime = handlers[h].data[1].startTime
              /\ pending'[i].endTime = handlers[h].data[1].endTime]_vars

\* C25: a dwell check confirms a session only when the dwell window has
\* elapsed since that session's own entry: whenever checkStillAtWork writes
\* CURRENT_SHIFT, the clock is at least 15 minutes past the start time it
\* writes.  (SpecSerial; the code violates it)
C25_ConfirmAfterOwnDwell ==
    [][\A h \in Slots :
         (/\ handlers[h].pc = "d_setShift"
          /\ handlers'[h] # handlers[h]
          /\ currentShift' # None
          /\ currentShift' # currentShift)
         => NewDate(Now) >= NewDate(currentShift'[1].startTime) + DwellMs]_vars

\* C26: when startGeofencing returns without throwing - tracking inactive
\* before the call or already active - the stored work location is the one
\* it was called with.  (SpecSerial; the code violates it)
C26_StartStoresWorkSite ==
    [][(/\ ui.op = "start"
        /\ ui.pc # "idle"
        /\ ui'.pc = "idle"
        /\ ui'.thrown = "none")
       => workLocation' = Some([radius |-> DefaultRadius])]_vars

\* C27: in every state a confirmed shift is stored only while isAtWork is
\* 'true', and its startTime is the stored entry time; no confirmed shift
\* outlives its session.  (SpecSerial; the code violates it)
C27_ConfirmedShiftOfSession ==
    currentShift # None =>
        /\ isAtWork = "true"
        /\ enteredTime = currentShift[1].startTime

EntryWrites == {"e_setEntered", "e_setAtWork", "e_notify"}

C29_ConcurrentEntryOnce ==
    [][\A h \in Slots :
         (handlers[h].pc \in EntryWrites /\ handlers'[h] # handlers[h])
         => \A k \in Slots \ {h} :
              handlers[k].kind # handlers[h].kind
              => handlers[k].pc \notin EntryWrites]_vars

\* C30: from OUTSIDE (isAtWork not true) an ENTER event or an in-radius
\* sample enters the session: the handler passes the guard, writes the signal
\* time to enteredAt, writes isAtWork = true, and on its return has emitted
\* one arrival notification and scheduled one dwell check, with
\* confirmedShift null.  (SpecSerial; the code violates the last part)
C30_EnterFromOutside ==
    [][\A h \in Slots :
         LET f == handlers[h] IN
         (handlers'[h] # f /\ nFail' = nFail)
         => /\ (f.pc = "l_atWork" /\ f.work # None /\ isAtWork # "true"
                 /\ f.sample <= f.work[1].radius)
               => handlers'[h].pc = "e_get"
            /\ (f.pc = "e_get" /\ isAtWork # "true")
               => handlers'[h].pc = "e_setEntered"
            /\ f.pc = "e_setEntered" => enteredTime' = f.time
            /\ f.pc = "e_setAtWork" => isAtWork' = "true"
            /\ f.pc = "e_notify"
               => /\ notif'.arrived = notif.arrived + 1
                  /\ timers'[now] = timers[now] + 1
                  /\ currentShift' = None]_vars

\* ENTERED_UNCONFIRMED as the dwell check read it and as it still is
Unconfirmed(f) ==
    /\ isAtWork = "true"
    /\ enteredTime # None
    /\ enteredTime = f.entered
    /\ currentShift = None

C32_DwellDeparture ==
    [][\A h \in Slots :
         LET f == handlers[h] IN
         /\ (/\ f.pc = "d_work"
             /\ handlers'[h] # f
             /\ nFail' = nFail
             /\ Unconfirmed(f)
             /\ workLocation # None
             /\ f.fresh > workLocation[1].radius)
            => /\ handlers'[h].pc = "x_getAtWork"
               /\ handlers'[h].time = Now'
         /\ (f.kind = "dwell" /\ pending' # pending /\ handlers'[h] # f)
            => pending'[Len(pending')].originalEndTime = f.time
         /\ (ExitReturns(h) /\ f.kind = "dwell" /\ f.isAtWork = "true")
            => Cleared']_vars

\* C33: when a dwell check that found an active session (line 304) returns,
\* the session is resolved: it is not left entered with no confirmedShift.
\* (SpecSerial; the code violates it)
C33_DwellResolves ==
    [][\A h \in Slots :
         LET f == handlers[h] IN
         (/\ f.kind = "dwell"
          /\ f.pc \notin {"idle", "d_getAtWork", "d_getEntered"}
          /\ handlers'[h].pc = "idle")
         => ~(isAtWork' = "true" /\ enteredTime' # None
              /\ currentShift' = None)]_vars

\* C34: a position sample starts an exit validation only when isAtWork is
\* true and the sample is beyond radius * 1.2; a validation that has its
\* fresh sample goes on to handleWorkExit only when that sample is beyond
\* radius * 1.2 too; and a sample between the radius and radius * 1.2 makes
\* the task do nothing but record the time of the check.  (SpecSerial; the
\* code violates the second part)
C34_ExitNeedsBothSamples ==
    [][\A h \in Slots :
         LET f == handlers[h] IN
         (handlers'[h] # f /\ f.kind = "loc")
         => /\ (f.pc = "l_atWork" /\ handlers'[h].pc = "v_pos")
               => /\ isAtWork = "true"
                  /\ f.work # None
                  /\ f.sample * 10 > f.work[1].radius * 12
            /\ (f.pc = "v_work" /\ handlers'[h].pc = "x_getAtWork")
               => /\ workLocation # None
                  /\ f.fresh * 10 > workLocation[1].radius * 12
            /\ (/\ f.pc = "l_atWork"
                /\ nFail' = nFail
                /\ f.work # None
                /\ f.sample > f.work[1].radius
                /\ f.sample * 10 <= f.work[1].radius * 12)
               => /\ handlers'[h].pc = "l_last"
                  /\ UNCHANGED <<storeVars, timers, notif, prompts>>]_vars

\* C35: when the write of enteredAt or of isAtWork is rejected during an
\* entry, the handler is done with the entry, emits no notification and
\* schedules no dwell check, and enteredAt is not left set with isAtWork
\* not true.  (SpecSerial; the code violates the last part)
C35_FailedEntryLeavesNoTrace ==
    [][\A h \in Slots :
         LET f == handlers[h] IN
         (/\ f.pc \in {"e_setEntered", "e_setAtWork"}
          /\ handlers'[h] # f
          /\ nFail' # nFail)
         => /\ handlers'[h].pc \in {"idle", "l_last"}
            /\ UNCHANGED <<notif, timers>>
            /\ isAtWork' # "true" => enteredTime' = None]_vars

\* C36: when handleWorkExit finds isAtWork true but neither a confirmedShift
\* nor an enteredAt, it appends nothing and goes to clearWorkState, and when
\* it returns the machine is OUTSIDE with no session data, the pending queue
\* is as it was and no error has escaped.  (SpecFaulty; the code violates
\* the clearing)
C36_NoSessionDataResets ==
    [][\A h \in Slots :
         LET f == handlers[h] IN
         /\ (/\ f.pc = "x_getEntered"
             /\ handlers'[h] # f
             /\ nFail' = nFail
             /\ f.isAtWork = "true"
             /\ f.shift = None
             /\ enteredTime = None)
            => /\ handlers'[h].pc = "c_remove"
               /\ handlers'[h].path = "nostart"
               /\ UNCHANGED pending
         /\ (ExitReturns(h) /\ f.path = "nostart")
            => /\ isAtWork' # "true"
               /\ enteredTime' = None
               /\ currentShift' = None
               /\ UNCHANGED pending
               /\ ~handlers'[h].uncaught]_vars

\* C38: every PendingShift in the stored queue starts and ends on a full or
\* half hour with zero seconds, ends after it starts, and its
\* durationMinutes is the number of minutes from startTime to endTime and
\* is at least 15.  (SpecSerial)
C38_StoredShiftsWellFormed ==
    \A i \in DOMAIN pending :
        LET shift == pending[i]
            start == NewDate(shift.startTime)
            end == NewDate(shift.endTime)
        IN  /\ shift.startTime[3] \in {0, 30}
            /\ shift.startTime[4] = 0
            /\ shift.endTime[3] \in {0, 30}
            /\ shift.endTime[4] = 0
            /\ end > start
            /\ shift.durationMinutes * 60000 = end - start
            /\ shift.durationMinutes >= 15

\* the visit 09:07:12 - 17:52:41 is stored as 09:00 - 18:00, 540 minutes
C38_Witness ==
    \E i \in DOMAIN pending :
        /\ pending[i].originalStartTime = Clock[1]
        /\ pending[i].originalEndTime = Clock[4]
        /\ pending[i].startTime = <<0, 9, 0, 0, 0>>
        /\ pending[i].endTime = <<0, 18, 0, 0, 0>>
        /\ pending[i].durationMinutes = 540

----------------------------------------------------------------------------
(* Properties of the confirmation workflow *)

\* the test of HomeScreen's findIndex: same start and end
SameShift(a, b) == a.startTime = b.startTime /\ a.endTime = b.endTime

\* list without its first entry that is the shift x
WithoutShift(list, x) ==
    LET hits == { i \in 1..Len(list) : SameShift(list[i], x) } IN
    IF hits = {} THEN list
    ELSE LET k == CHOOSE i \in hits : \A j \in hits : i <= j IN
         [ i \in 1..(Len(list) - 1) |-> IF i < k THEN list[i] ELSE list[i + 1] ]

\* C4: the write of an accept stores the queue it read without exactly the
\* accepted shift, the others in their order.  (SpecQueue; the code violates
\* it)
C4_AcceptRemovesAccepted ==
    [][(/\ ui.pc = "a_write"
        /\ ui.op = "accept"
        /\ ui'.pc # "a_write"
        /\ nFail' = nFail)
       => pending' = WithoutShift(ui.pend, ui.shift[1])]_vars

\* C5: when createShift rejects, in accept or in edit-save, the operation
\* ends there and the stored queue is what it was.  (SpecQueueFaulty)
C5_FailedCreateKeepsQueue ==
    [][(/\ ui.pc = "a_create"
        /\ ui' # ui
        /\ created' = created)
       => (pending' = pending /\ ui' = UiIdle)]_vars

\* HomeScreen has shown the error alert of a failed accept, nothing was
\* persisted and the shift is still pending.
C5_Witness ==
    /\ alert = <<"HomeScreen", "Error">>
    /\ created = <<>>
    /\ pending # <<>>
    /\ ui = UiIdle

\* C6: a removal that targets the right entry of the queue it read drops
\* nothing else from the stored queue.  (SpecQueue; the code violates it)
C6_RemovalDropsNothingElse ==
    [][(/\ ui.pc = "a_write"
        /\ ui'.pc # "a_write"
        /\ ui.index >= 0
        /\ ui.index < Len(ui.pend)
        /\ SameShift(ui.pend[ui.index + 1], ui.shift[1]))
       => \A k \in DOMAIN pending :
            SameShift(pending[k], ui.shift[1])
            \/ \E m \in DOMAIN pending' : pending'[m] = pending[k]]_vars

\* C19: handleSave validates the draft before anything else: a save that
\* ends at once has shown the Invalid Time or Invalid Duration alert and
\* left the created rows and the pending queue alone, and a save that goes
\* on carries a draft whose end is after its start and whose duration is at
\* least 15 minutes.  (SpecQueue)
C19_SaveValidatesDraft ==
    [][/\ (nUi' # nUi /\ ui'.pc = "idle")
          => /\ alert' \in { <<"EditShiftScreen", "Invalid Time">>,
                             <<"EditShiftScreen", "Invalid Duration">> }
             /\ UNCHANGED <<created, pending>>
       /\ (nUi' # nUi /\ ui'.op = "edit")
          => /\ NewDate(ui'.draft[1].endTime) > NewDate(ui'.draft[1].startTime)
             /\ ui'.draft[1].durationMinutes >= 15]_vars

\* A pending shift was edited to end ten minutes after its start; the save
\* was refused with the Invalid Duration alert, nothing was created and the
\* shift is still pending.
C19_Witness ==
    /\ alert = <<"EditShiftScreen", "Invalid Duration">>
    /\ ui = UiIdle
    /\ created = <<>>
    /\ Len(pending) = 1

\* C20: when handleSave reports success for a pending shift, opened from
\* the list or from a prompt's Edit action, a row with the edited times has
\* been created and the edited shift is no longer in the stored queue.
\* (SpecQueue; the code violates it)
C20_EditSaveRemovesPending ==
    [][(/\ ui.op = "edit"
        /\ ui'.pc = "idle"
        /\ alert' = <<"EditShiftScreen", "Success">>)
       => /\ created' # <<>>
          /\ created'[Len(created')] = Row(ui.draft[1])
          /\ \A i \in DOMAIN pending' : ~SameShift(pending'[i], ui.shift[1])]_vars

\* C37: when the read of the pending queue is rejected inside
\* removePendingShift, the write that follows leaves the stored queue as it
\* is.  (SpecQueueFaulty; the code violates it)
C37_FailedReadKeepsQueue ==
    [][(ui.pc = "a_write" /\ ui.caught /\ ui' # ui) => pending' = pending]_vars

\* C39: createShift never succeeds for a PendingShift for which an accept
\* or an edit-save already created a record.  (SpecRepeat; the code
\* violates it)
C39_OneRecordPerPendingShift ==
    [][created' # created
       => \A j \in DOMAIN removeLog : removeLog[j] # ui.shift[1]]_vars

----------------------------------------------------------------------------
(* Properties of the pure functions *)

\* C10: for every input timestamp, roundTime's result has seconds = 0,
\* milliseconds = 0 and minute-of-hour 0 or 30.  (SpecRound)
C10_RoundedOnHalfHour ==
    pout # None =>
        LET fields == ToISOString(pout[1]) IN
        /\ fields[4] = 0
        /\ fields[5] = 0
        /\ fields[3] \in {0, 30}

\* 23:52:59.999 of day 0 has been rounded, across midnight, to 00:00 of day 1.
C10_Witness ==
    /\ pin = <<MakeTime(0, 23, 52, 59, 999)>>
    /\ pout = <<MakeTime(1, 0, 0, 0, 0)>>

\* C11: rounding is idempotent: roundTime applied to a result of roundTime
\* returns that result.  (SpecRound)
C11_RoundIdempotent ==
    Len(pout) = 2 => pout[2] = pout[1]

\* 09:20:59.999 was rounded to 09:30, and 09:30 was rounded to 09:30 again.
C11_Witness ==
    /\ pin = <<MakeTime(0, 9, 20, 59, 999)>>
    /\ pout = <<MakeTime(0, 9, 30, 0, 0), MakeTime(0, 9, 30, 0, 0)>>

\* C12: a timestamp of hour h and minute m is rounded to h:00 of its day
\* when m <= 15, to h:30 when 15 < m <= 45 and to (h+1):00 when m > 45,
\* which is 00:00 of the next day when h = 23.  (SpecRound)
C12_RoundBranches ==
    pout # None =>
        LET t == ToISOString(pin[1])
            day == t[1]
            h == t[2]
            m == t[3]
            r == ToISOString(pout[1])
        IN  /\ m <= 15 => r = <<day, h, 0, 0, 0>>
            /\ (15 < m /\ m <= 45) => r = <<day, h, 30, 0, 0>>
            /\ (m > 45 /\ h < 23) => r = <<day, h + 1, 0, 0, 0>>
            /\ (m > 45 /\ h = 23) => r = <<day + 1, 0, 0, 0, 0>>

\* 09:15:59.999 went down to 09:00 (minute 15 is the last one rounded down).
C12_Witness ==
    /\ pin = <<MakeTime(0, 9, 15, 59, 999)>>
    /\ pout # None
    /\ pout[1] = MakeTime(0, 9, 0, 0, 0)

\* C13: rounding is employee-friendly: the rounded entry of a finalized
\* shift is never later than the actual entry and its rounded exit is never
\* earlier than the actual exit.  (SpecFinalize)
C13_EmployeeFriendly ==
    (pout # None /\ "startTime" \in DOMAIN pout[1]) =>
        /\ NewDate(pout[1].startTime) <= NewDate(pout[1].originalStartTime)
        /\ NewDate(pout[1].endTime) >= NewDate(pout[1].originalEndTime)

\* C7: whenever the rounded duration is at least 15 minutes, the shift that
\* finalization builds has startTime = round(entry), endTime = round(exit),
\* durationMinutes = floor((round(exit) - round(entry)) / 60000), the
\* original times echoed and wasRounded = true.  (SpecFinalize)
C7_FinalizedShift ==
    pout # None =>
        LET start == RoundTime(NewDate(pin[1]))
            end == RoundTime(NewDate(pin[2]))
            minutes == (end - start) \div 60000
        IN  minutes >= 15 =>
              /\ DOMAIN pout[1] = { "startTime", "endTime", "durationMinutes",
                                    "date", "originalStartTime",
                                    "originalEndTime", "wasRounded" }
              /\ pout[1].startTime = ToISOString(start)
              /\ pout[1].endTime = ToISOString(end)
              /\ pout[1].durationMinutes = minutes
              /\ pout[1].originalStartTime = pin[1]
              /\ pout[1].originalEndTime = pin[2]
              /\ pout[1].wasRounded = TRUE

\* Enter 09:07, exit 17:52: the shift runs 09:00 to 18:00, 540 minutes.
C7_Witness ==
    /\ pin = << <<0, 9, 7, 0, 0>>, <<0, 17, 52, 0, 0>> >>
    /\ pout # None
    /\ pout[1].startTime = <<0, 9, 0, 0, 0>>
    /\ pout[1].endTime = <<0, 18, 0, 0, 0>>
    /\ pout[1].durationMinutes = 540
    /\ pout[1].wasRounded = TRUE

=============================================================================
